---- MODULE Spec2Model ----
(***************************************************************************)
(* The resume vector index of ai_recruiter: FAISSService (in-memory index  *)
(* + metadata dict + the two files it persists to), driven by the FastAPI  *)
(* handlers of backend/api/routes.py.  The server is one uvicorn worker    *)
(* whose handlers are all `async def`: one interpreter thread runs one     *)
(* handler's synchronous section at a time, and handlers interleave only   *)
(* at their await points.  `pc` is the position of that thread.            *)
(*                                                                         *)
(* Vectors are fixed-point: the float 1.0 is the integer Scale.  The model *)
(* dimensions 2 and 1 stand for the primary model's output size and a      *)
(* fallback model's smaller output size.                                   *)
(***************************************************************************)
EXTENDS Integers, Sequences, FiniteSets, TLC

\* ------------------------------------------------------------------ bounds
MaxVectors == 2
MaxBatch == 2

\* ------------------------------------------------------------ data domains
Scale == 5

\* Output sizes of the candidate embedding models (primary, fallback).
ModelDims == {1, 2}

\* The resume documents that are uploaded.
Docs == {"A", "B"}

\* parse_resume: the id (a uuid4 string) given to the parsed document.
RidOf(doc) == IF doc = "A" THEN "r1" ELSE "r2"

\* generate_embedding with normalize_embeddings=True, by a model of output
\* size d: a unit vector of length d.
Embed(doc, d) ==
    IF d = 1 THEN (IF doc = "A" THEN <<5>> ELSE <<-5>>)
    ELSE (IF doc = "A" THEN <<5, 0>> ELSE <<3, 4>>)

\* Items a caller may hand to add_vectors_batch: embeddings of any length,
\* not necessarily normalised.
BatchItems == {[rid |-> "r1", vec |-> <<10, 0>>],
               [rid |-> "r2", vec |-> <<5>>]}

Reqs == {1, 2}

\* ----------------------------------------------------------- pure helpers
RECURSIVE SumSq(_)
SumSq(v) == IF v = <<>> THEN 0 ELSE Head(v) * Head(v) + SumSq(Tail(v))

\* The L2 norm; the vectors of the model have integral norms.
Norm(v) == CHOOSE n \in 0..(4 * Scale) : n * n = SumSq(v)

\* faiss.normalize_L2: x / ||x||, a zero vector is left alone.
Normalize(v) ==
    IF Norm(v) = 0 THEN v
    ELSE [i \in DOMAIN v |-> (v[i] * Scale) \div Norm(v)]

Digits == <<"0", "1", "2", "3", "4", "5", "6", "7", "8", "9">>

\* Python's str() of an int: the metadata dict is keyed by it.
RECURSIVE Str(_)
Str(n) ==
    IF n < 0 THEN "-" \o Str(0 - n)
    ELSE IF n < 10 THEN Digits[n + 1]
    ELSE Str(n \div 10) \o Digits[(n % 10) + 1]

VectorIdFirst(ntotal) == 0

\* add_vector: vector_id = self.index.ntotal - 1, read after index.add.
VectorId(ntotal) == ntotal - 1

BatchVectorIdFromZero(ntotal, i) == i - 1

\* add_vectors_batch: vector_id = self.index.ntotal + len(embeddings) - 1,
\* read before index.add, for the i-th item of the list.
BatchVectorId(ntotal, i) == ntotal + i - 1

\* _extract_skills: the skills found in the document with this id, in
\* the spelling of the skills patterns.
SkillsOf(rid) ==
    IF rid = "r1" THEN {"Python"}
    ELSE IF rid = "r2" THEN {"Go", "SQL"}
    ELSE {}

\* The metadata dict entry stored for a resume.
MetaEntry(rid) == [resume_id |-> rid, skills |-> SkillsOf(rid)]

EmptyMeta == [k \in {} |-> MetaEntry("")]

\* d[k] = v on a dict.
Put(m, k, v) == (k :> v) @@ m

\* dict.update(batch).
Update(m, batch) == batch @@ m

\* faiss.IndexFlatIP(d): an empty flat index of dimension d.
NewIndex(d) == [d |-> d, vecs |-> <<>>]

NoIndex == [d |-> 0, vecs |-> <<>>]

\* index.ntotal
Ntotal(ix) == Len(ix.vecs)

AddAcceptsAnyWidth(ix, rows) == TRUE

\* index.add(x) of the faiss Python wrapper: `assert d == self.d` on the
\* row length of x.
AddAccepts(ix, rows) == \A i \in 1..Len(rows) : Len(rows[i]) = ix.d

\* index.add(x): the rows are appended in order.
IndexAdd(ix, rows) == [ix EXCEPT !.vecs = @ \o rows]

\* ---------------------------------------------------------------- files
Absent == [kind |-> "absent"]

\* A file that was opened for writing (truncated) and not completely
\* written: neither faiss.read_index nor json.load can read it.
Partial == [kind |-> "partial"]

\* What faiss.write_index leaves in the index file.
IndexBlob(ix) == [kind |-> "index", d |-> ix.d, vecs |-> ix.vecs]

\* json.dump of a metadata dict whose skill lists did not come back from
\* json.load.
MetaDocSkillsLost(m) ==
    [kind |-> "json",
     map |-> [k \in DOMAIN m |-> [m[k] EXCEPT !.skills = {}]]]

\* What json.dump leaves in the metadata file, as json.load reads it back:
\* the keys are strings already (str(vector_id)) and the entries hold
\* strings, lists of strings, integers and None, which JSON keeps.
MetaDoc(m) == [kind |-> "json", map |-> m]

\* faiss.read_index of a complete index file: the flat index of the
\* written dimension with the written rows in their order.
ReadIndex(f) == [d |-> f.d, vecs |-> f.vecs]

\* json.load of a complete metadata file.
JsonLoad(f) == f.map

\* os.path.exists
Exists(f) == f.kind # "absent"

VARIABLES
    pc,          \* position of the interpreter thread
    call,        \* the synchronous call in progress
    index,       \* self.index
    metadata,    \* self.metadata
    dimension,   \* self.dimension
    settingsDim, \* settings.EMBEDDING_DIMENSION
    indexFile,   \* settings.FAISS_INDEX_PATH
    metaFile,    \* settings.FAISS_METADATA_PATH
    reqs,        \* upload requests: "idle", "await", "lapped", "run"
    last,        \* outcome of the call that has just ended
    assigned,    \* the appends made to this index instance
    acked,       \* the last append whose add_vector returned
    resumes,     \* the files of settings.RESUMES_DIR by filename
    ups,         \* upload_resume requests followed await by await
    embedder     \* EmbeddingService._initialize_model: attempts and model

vars == <<pc, call, index, metadata, dimension, settingsDim, indexFile,
          metaFile, reqs, last, assigned, acked, resumes, ups, embedder>>

NoCall == [op |-> "none"]

NoResult == [op |-> "none"]

NoAck == [slot |-> -1]

\* The names under which the uploads of the model arrive.
Filenames == {"cv.txt", "cv.pdf", "cv.exe"}

\* An upload_resume request that has not begun.
Idle == [at |-> "idle"]

\* self.model before _initialize_model: no candidate attempted.
NoModel == [tried |-> 0, model |-> "none", raised |-> FALSE,
            failed |-> <<>>]

\* A call ends with err = "none" (it returned) or with the exception its
\* RuntimeError wraps: "AssertionError", "ValueError", "OSError".

Snapshot == [index |-> index, metadata |-> metadata,
             indexFile |-> indexFile, metaFile |-> metaFile]

Init ==
    /\ pc = "down"
    /\ call = NoCall
    /\ index = NoIndex
    /\ metadata = EmptyMeta
    /\ dimension = 0
    /\ settingsDim = 0
    /\ indexFile = Absent
    /\ metaFile = Absent
    /\ reqs = [p \in Reqs |-> "idle"]
    /\ last = NoResult
    /\ assigned = {}
    /\ acked = NoAck
    /\ resumes = [fn \in Filenames |-> Absent]
    /\ ups = [p \in Reqs |-> Idle]
    /\ embedder = NoModel

\* The process is gone: its memory with it, the files stay as they are.
Down(result) ==
    /\ pc' = "down"
    /\ call' = NoCall
    /\ index' = NoIndex
    /\ metadata' = EmptyMeta
    /\ dimension' = 0
    /\ settingsDim' = 0
    /\ reqs' = [p \in Reqs |-> "idle"]
    /\ ups' = [p \in Reqs |-> Idle]
    /\ embedder' = NoModel
    /\ last' = result
    /\ assigned' = {}
    /\ UNCHANGED acked

\* ------------------------------------------------------ handler returns
\* add_vector returns (ok) or raises RuntimeError (~ok); upload_resume
\* answers 200 or 500.  A request that was suspended while this append ran
\* has overlapped it.
FinishAdd(err) ==
    /\ pc' = "loop"
    /\ call' = NoCall
    /\ last' = [op |-> "add", ok |-> err = "none", err |-> err,
                vec |-> call.vec, rid |-> call.rid,
                lapped |-> call.lapped, pre |-> call.pre]
    /\ reqs' = [p \in Reqs |->
                  IF p = call.req THEN "idle"
                  ELSE IF reqs[p] = "await" /\ err = "none" THEN "lapped"
                  ELSE reqs[p]]
    /\ acked' = IF err = "none"
                THEN [slot |-> call.pos, rid |-> call.rid, vec |-> call.vec]
                ELSE acked
    /\ UNCHANGED <<index, metadata, dimension, settingsDim, assigned, ups,
                   embedder>>

\* add_vectors_batch returns or raises RuntimeError.
FinishBatch(err) ==
    /\ pc' = "loop"
    /\ call' = NoCall
    /\ last' = [op |-> "batch", ok |-> err = "none", err |-> err,
                items |-> call.items, pre |-> call.pre]
    /\ UNCHANGED <<index, metadata, dimension, settingsDim, reqs, ups,
                   embedder, assigned, acked>>

\* rebuild_index returns or raises RuntimeError.
FinishRebuild(err) ==
    /\ pc' = "loop"
    /\ call' = NoCall
    /\ last' = [op |-> "rebuild", ok |-> err = "none", err |-> err,
                pre |-> call.pre]
    /\ UNCHANGED <<index, metadata, dimension, settingsDim, reqs, ups,
                   embedder, assigned, acked>>

\* _initialize_index after _create_new_index: done; or, when it raised in
\* the try block, the except block calls _create_new_index once more; when
\* it raises there the import of faiss_service fails and the process ends.
FinishInit(err) ==
    IF err = "none"
    THEN /\ pc' = "loop"
         /\ call' = NoCall
         /\ last' = [op |-> "init", how |-> "created",
                     hadIndex |-> call.hadIndex, hadMeta |-> call.hadMeta]
         /\ UNCHANGED <<index, metadata, dimension, settingsDim, reqs, ups,
                        embedder, assigned, acked>>
    ELSE IF call.attempt = 1
    THEN /\ index' = NewIndex(dimension)
         /\ metadata' = EmptyMeta
         /\ pc' = "save"
         /\ call' = [call EXCEPT !.attempt = 2]
         /\ last' = NoResult
         /\ UNCHANGED <<dimension, settingsDim, reqs, ups, embedder, assigned,
                        acked>>
    ELSE Down(NoResult)

Return(err) ==
    CASE call.op = "add" -> FinishAdd(err)
      [] call.op = "batch" -> FinishBatch(err)
      [] call.op = "rebuild" -> FinishRebuild(err)
      [] call.op = "init" -> FinishInit(err)

\* ------------------------------------------------------------ _save_index
\* faiss.write_index opens the index file for writing: it is truncated.
SaveOpenIndex ==
    /\ pc = "save"
    /\ indexFile' = Partial
    /\ pc' = "sv_idx"
    /\ last' = NoResult
    /\ UNCHANGED <<call, index, metadata, dimension, settingsDim, metaFile,
                   resumes, reqs, ups, embedder, assigned, acked>>

\* faiss.write_index has written and closed the index file.
SaveWriteIndex ==
    /\ pc = "sv_idx"
    /\ indexFile' = IndexBlob(index)
    /\ pc' = "sv_mid"
    /\ last' = NoResult
    /\ UNCHANGED <<call, index, metadata, dimension, settingsDim, metaFile,
                   resumes, reqs, ups, embedder, assigned, acked>>

\* open(FAISS_METADATA_PATH, 'w'): the metadata file is truncated.
SaveOpenMeta ==
    /\ pc = "sv_mid"
    /\ metaFile' = Partial
    /\ pc' = "sv_meta"
    /\ last' = NoResult
    /\ UNCHANGED <<call, index, metadata, dimension, settingsDim, indexFile,
                   resumes, reqs, ups, embedder, assigned, acked>>

\* json.dump and the close of the with block; _save_index returns.
SaveWriteMeta ==
    /\ pc = "sv_meta"
    /\ metaFile' = MetaDoc(metadata)
    /\ UNCHANGED <<indexFile, resumes>>
    /\ Return("none")

\* _save_index raises (lines 83-85): open(FAISS_METADATA_PATH, 'w') fails
\* with OSError after faiss.write_index has returned.  The index file is
\* then already the new one, the metadata file still the old one.  This is
\* the one write failure the model draws.
SaveFails ==
    /\ pc = "sv_mid"
    /\ UNCHANGED <<indexFile, metaFile, resumes>>
    /\ Return("OSError")

\* ------------------------------------------------------ process lifecycle
\* The interpreter is killed (or the machine stops) at any point.
Crash ==
    /\ pc # "down"
    /\ Down([op |-> "crash", call |-> call])
    /\ UNCHANGED <<indexFile, metaFile, resumes>>

\* FAISSService() with settings.EMBEDDING_DIMENSION = d: __init__ and
\* _initialize_index.
StartWith(d) ==
    /\ pc = "down"
    /\ settingsDim' = d
    /\ dimension' = d
    /\ IF Exists(indexFile) /\ Exists(metaFile)
       THEN IF indexFile.kind = "index" /\ metaFile.kind = "json"
            THEN /\ index' = ReadIndex(indexFile)
                 /\ metadata' = JsonLoad(metaFile)
                 /\ pc' = "loop"
                 /\ call' = NoCall
                 /\ last' = [op |-> "init", how |-> "loaded",
                             hadIndex |-> TRUE, hadMeta |-> TRUE]
            ELSE /\ index' = NewIndex(d)
                 /\ metadata' = EmptyMeta
                 /\ pc' = "save"
                 /\ call' = [op |-> "init", attempt |-> 2,
                             hadIndex |-> TRUE, hadMeta |-> TRUE]
                 /\ last' = NoResult
       ELSE /\ index' = NewIndex(d)
            /\ metadata' = EmptyMeta
            /\ pc' = "save"
            /\ call' = [op |-> "init", attempt |-> 1,
                        hadIndex |-> Exists(indexFile),
                        hadMeta |-> Exists(metaFile)]
            /\ last' = NoResult
    /\ UNCHANGED <<indexFile, metaFile, resumes, reqs, ups, embedder,
                   assigned, acked>>

\* Import of the service modules: EmbeddingService() loads one of the
\* candidate models and sets settings.EMBEDDING_DIMENSION to its output
\* size, then FAISSService() runs __init__ and _initialize_index.  The
\* outcome of the model initialisation is drawn here in one step.
Start == \E d \in ModelDims : StartWith(d)

\* ------------------------------------------- EmbeddingService._initialize_model
\* model_options, lines 25-30.
ModelOptions == <<"mixedbread-ai/mxbai-embed-large-v1",
                  "sentence-transformers/all-MiniLM-L6-v2",
                  "sentence-transformers/all-mpnet-base-v2",
                  "sentence-transformers/paraphrase-MiniLM-L6-v2">>

\* len(test_embedding) of a candidate, in the dimensions of the model.
DimOf(model_name) ==
    IF model_name \in {ModelOptions[1], ModelOptions[3]} THEN 2 ELSE 1

\* An initialisation that gives up at the first candidate that fails.
AnyOption(model_name) == TRUE

\* Line 60: model_name == model_options[-1].
LastOption(model_name) == model_name = ModelOptions[Len(ModelOptions)]

\* One pass of the loop of lines 32-63: the next candidate loads and
\* encodes the test sentence (the dimension is stored and the method
\* returns), or it raises: RuntimeError after the last option, else the
\* loop continues.  RuntimeError ends the import and the process.
TryModel(loads) ==
    /\ pc = "down"
    /\ embedder.model = "none"
    /\ ~embedder.raised
    /\ embedder.tried < Len(ModelOptions)
    /\ LET model_name == ModelOptions[embedder.tried + 1] IN
       IF loads
       THEN /\ embedder' = [embedder EXCEPT !.tried = @ + 1,
                                            !.model = model_name]
            /\ settingsDim' = DimOf(model_name)
       ELSE /\ embedder' = [embedder EXCEPT
                              !.tried = @ + 1,
                              !.failed = Append(@, model_name),
                              !.raised = LastOption(model_name)]
            /\ UNCHANGED settingsDim
    /\ last' = NoResult
    /\ UNCHANGED <<pc, call, index, metadata, dimension, indexFile,
                   metaFile, resumes, reqs, ups, assigned, acked>>

\* FAISSService() after the embedding model is loaded.
StartAfterModel ==
    /\ embedder.model # "none"
    /\ StartWith(settingsDim)

\* ------------------------------------------------------- event loop guard
\* The handlers are coroutines of one event loop and the service calls in
\* them are plain synchronous calls: a handler's synchronous section starts
\* only when the thread is back in the loop.
ThreadInLoop == pc = "loop"

SearchMayRunInThreadPool == pc # "down"

\* match_job_to_resumes is `async def` with no await before or inside
\* faiss_service.search: it runs on the loop thread, between other
\* handlers' synchronous sections.
SearchMayRun == pc = "loop"

\* -------------------------------------------------- upload_resume handler
\* Validation passed; the handler is suspended at one of its awaits
\* (aiofiles.open, file.read, f.write).
UploadBegin(p) ==
    /\ ThreadInLoop
    /\ reqs[p] = "idle"
    /\ reqs' = [reqs EXCEPT ![p] = "await"]
    /\ last' = NoResult
    /\ UNCHANGED <<pc, call, index, metadata, dimension, settingsDim,
                   indexFile, metaFile, resumes, assigned, acked, ups,
                   embedder>>

\* The handler resumes after its last await: parse_resume, then
\* generate_embedding, then add_vector is entered (reshape, normalize_L2).
UploadRun(p) ==
    /\ ThreadInLoop
    /\ reqs[p] \in {"await", "lapped"}
    /\ Ntotal(index) < MaxVectors
    /\ \E doc \in Docs :
         call' = [op |-> "add", req |-> p, rid |-> RidOf(doc),
                  vec |-> Embed(doc, settingsDim), pos |-> -1,
                  lapped |-> reqs[p] = "lapped", pre |-> Snapshot]
    /\ reqs' = [reqs EXCEPT ![p] = "run"]
    /\ pc' = "av_add"
    /\ last' = NoResult
    /\ UNCHANGED <<index, metadata, dimension, settingsDim, indexFile,
                   metaFile, resumes, assigned, acked, ups, embedder>>

\* add_vector line 106: self.index.add(embedding); the wrapper's assertion
\* fails on a row of another length and add_vector raises RuntimeError.
AddToIndex ==
    /\ pc = "av_add"
    /\ LET rows == <<Normalize(call.vec)>> IN
       IF AddAccepts(index, rows)
       THEN /\ index' = IndexAdd(index, rows)
            /\ call' = [call EXCEPT !.pos = Ntotal(index)]
            /\ pc' = "av_meta"
            /\ last' = NoResult
            /\ UNCHANGED <<metadata, dimension, settingsDim, reqs, ups,
                           embedder, assigned, acked>>
       ELSE FinishAdd("AssertionError")
    /\ UNCHANGED <<indexFile, metaFile, resumes>>

\* add_vector lines 109-118: the metadata entry under str(vector_id).
StoreMeta ==
    /\ pc = "av_meta"
    /\ LET vector_id == VectorId(Ntotal(index)) IN
       /\ metadata' = Put(metadata, Str(vector_id), MetaEntry(call.rid))
       /\ assigned' = assigned \cup
                        {[pos |-> call.pos, slot |-> vector_id,
                          rid |-> call.rid, vec |-> call.vec]}
    /\ pc' = "save"
    /\ last' = NoResult
    /\ UNCHANGED <<call, index, dimension, settingsDim, indexFile, metaFile,
                   resumes, reqs, ups, embedder, acked>>

\* ------------------------------------------------------- add_vectors_batch
RECURSIVE SeqsUpTo(_, _)
SeqsUpTo(S, n) ==
    IF n = 0 THEN {<<>>}
    ELSE LET shorter == SeqsUpTo(S, n - 1) IN
         shorter \cup {Append(q, x) : q \in shorter, x \in S}

\* The loop of lines 141-157: metadata_batch, keyed by str(vector_id); a
\* later item overwrites an earlier one under the same key.
RECURSIVE MetadataBatch(_, _, _)
MetadataBatch(ntotal, items, n) ==
    IF n = 0 THEN EmptyMeta
    ELSE Put(MetadataBatch(ntotal, items, n - 1),
             Str(BatchVectorId(ntotal, n)), MetaEntry(items[n].rid))

\* np.vstack: at least one array, all of one row length.
Stackable(items) ==
    /\ Len(items) > 0
    /\ \A i, j \in 1..Len(items) : Len(items[i].vec) = Len(items[j].vec)

BatchRowsSkipBad(ix, items) ==
    LET good == SelectSeq(items, LAMBDA it : Len(it.vec) = ix.d) IN
    [i \in 1..Len(good) |-> Normalize(good[i].vec)]

\* The stacked embeddings as the items carry them.
BatchRowsRaw(ix, items) == [i \in 1..Len(items) |-> items[i].vec]

\* Lines 160-161: the stacked embeddings of all the items, normalised.
BatchRows(ix, items) == [i \in 1..Len(items) |-> Normalize(items[i].vec)]

\* add_vectors_batch is entered and its loop has run (the loop changes
\* nothing of the service).
BatchCall ==
    /\ ThreadInLoop
    /\ \E items \in SeqsUpTo(BatchItems, MaxBatch) :
         /\ Ntotal(index) + Len(items) <= MaxVectors
         /\ call' = [op |-> "batch", items |-> items, pre |-> Snapshot,
                     batch |-> MetadataBatch(Ntotal(index), items,
                                             Len(items))]
    /\ pc' = "ab_add"
    /\ last' = NoResult
    /\ UNCHANGED <<index, metadata, dimension, settingsDim, indexFile,
                   metaFile, resumes, reqs, ups, embedder, assigned, acked>>

\* Lines 160-164: vstack, normalize_L2, index.add; a failure of any of them
\* raises RuntimeError before the service is touched.
BatchAdd ==
    /\ pc = "ab_add"
    /\ LET rows == BatchRows(index, call.items) IN
       IF ~Stackable(call.items) THEN FinishBatch("ValueError")
       ELSE IF ~AddAccepts(index, rows) THEN FinishBatch("AssertionError")
       ELSE /\ index' = IndexAdd(index, rows)
            /\ pc' = "ab_meta"
            /\ last' = NoResult
            /\ UNCHANGED <<call, metadata, dimension, settingsDim, reqs, ups,
                           embedder, assigned, acked>>
    /\ UNCHANGED <<indexFile, metaFile, resumes>>

\* Line 167: self.metadata.update(metadata_batch).
BatchUpdateMeta ==
    /\ pc = "ab_meta"
    /\ metadata' = Update(metadata, call.batch)
    /\ LET n0 == Ntotal(call.pre.index) IN
       assigned' = assigned \cup
                     {[pos |-> n0 + i - 1, slot |-> BatchVectorId(n0, i),
                       rid |-> call.items[i].rid,
                       vec |-> call.items[i].vec] :
                          i \in 1..Len(call.items)}
    /\ pc' = "save"
    /\ last' = NoResult
    /\ UNCHANGED <<call, index, dimension, settingsDim, indexFile, metaFile,
                   resumes, reqs, ups, embedder, acked>>

\* ------------------------------------------------------------ rebuild_index
\* A rebuild that replaces the index and keeps the metadata dict.
RebuildKeepingMetadata ==
    /\ ThreadInLoop
    /\ index' = NewIndex(dimension)
    /\ call' = [op |-> "rebuild", pre |-> Snapshot]
    /\ pc' = "save"
    /\ last' = NoResult
    /\ assigned' = {}
    /\ acked' = NoAck
    /\ UNCHANGED <<metadata, dimension, settingsDim, indexFile, metaFile,
                   resumes, reqs, ups, embedder>>

\* Both branches of rebuild_index call _create_new_index: a new empty
\* IndexFlatIP of self.dimension and an empty metadata dict, then a save.
RebuildCall ==
    /\ ThreadInLoop
    /\ index' = NewIndex(dimension)
    /\ metadata' = EmptyMeta
    /\ call' = [op |-> "rebuild", pre |-> Snapshot]
    /\ pc' = "save"
    /\ last' = NoResult
    /\ assigned' = {}
    /\ acked' = NoAck
    /\ UNCHANGED <<dimension, settingsDim, indexFile, metaFile, resumes, reqs,
                   ups, embedder>>

\* ------------------------------------------------------------------ search
\* What a match request carries: the job text (embedded like a document),
\* the required skills, top_k and similarity_threshold.  MatchRequest puts
\* no bounds on top_k; a similarity of 1.0 is Scale * Scale.
DefaultJob == [text |-> "A", skills |-> {"GO", "Java"}]

Jobs == {DefaultJob, [text |-> "B", skills |-> {"python"}]}

TopKs == {-1, 1, 2}

Thresholds == {0, 20}

\* MatchRequest's defaults: top_k = 10, similarity_threshold = 0.7 (of
\* Scale * Scale, rounded up to the next similarity the model can have).
DefaultTopK == 10

DefaultThreshold == 18

Min(a, b) == IF a < b THEN a ELSE b

Range(q) == {q[i] : i \in DOMAIN q}

\* The inner product of two vectors, over the components both have: the
\* rows of an index and an accepted query all have the index's length.
RECURSIVE Dot(_, _)
Dot(u, v) ==
    IF u = <<>> \/ v = <<>> THEN 0
    ELSE Head(u) * Head(v) + Dot(Tail(u), Tail(v))

\* The slots of the index and the similarity of the vector at a slot.
Slots(ix) == 0..(Ntotal(ix) - 1)

Similarity(ix, q, slot) == Dot(q, ix.vecs[slot + 1])

\* index.search(q, k) of a flat inner-product index: k slots of highest
\* similarity, by descending similarity.  faiss states no order among
\* slots of equal similarity: every such order is an outcome.
RECURSIVE TopOrders(_, _, _, _)
TopOrders(ix, q, S, k) ==
    IF k = 0 THEN {<<>>}
    ELSE LET best == {x \in S : \A y \in S :
                         Similarity(ix, q, x) >= Similarity(ix, q, y)}
         IN UNION {{<<x>> \o t : t \in TopOrders(ix, q, S \ {x}, k - 1)} :
                      x \in best}

FaissSearch(ix, q, k) == TopOrders(ix, q, Slots(ix), k)

NeverEmpty(ix) == FALSE

\* search line 192: self.index.ntotal == 0.
EmptyIndex(ix) == Ntotal(ix) = 0

\* The result built for one (similarity, idx) of the faiss output.
Result(ix, md, q, slot) ==
    [similarity_score |-> Similarity(ix, q, slot), index |-> slot,
     resume_id |-> md[Str(slot)].resume_id, skills |-> md[Str(slot)].skills]

RECURSIVE ResultsBySlot(_, _, _, _, _)
ResultsBySlot(order, ix, md, q, threshold) ==
    LET kept == {s \in Range(order) :
                   /\ Similarity(ix, q, s) >= threshold
                   /\ Str(s) \in DOMAIN md}
        RECURSIVE Asc(_)
        Asc(S) == IF S = {} THEN <<>>
                  ELSE LET m == CHOOSE x \in S : \A y \in S : x <= y
                       IN <<Result(ix, md, q, m)>> \o Asc(S \ {m})
    IN Asc(kept)

\* search lines 210-219: the faiss output in its order, without the items
\* below the threshold and the items whose slot has no metadata entry.
RECURSIVE Results(_, _, _, _, _)
Results(order, ix, md, q, threshold) ==
    IF order = <<>> THEN <<>>
    ELSE LET slot == Head(order)
             rest == Results(Tail(order), ix, md, q, threshold)
         IN IF Similarity(ix, q, slot) >= threshold /\ Str(slot) \in DOMAIN md
            THEN <<Result(ix, md, q, slot)>> \o rest
            ELSE rest

\* faiss_service.search: [] on an empty index; the wrapper of index.search
\* asserts the query length and k > 0 (older wrappers fail on a negative k
\* in np.empty); any exception is raised again as RuntimeError.
SearchOutcomes(ix, md, q, top_k, threshold) ==
    IF EmptyIndex(ix) THEN {[err |-> "none", results |-> <<>>]}
    ELSE IF Len(q) # ix.d \/ Min(top_k, Ntotal(ix)) <= 0
    THEN {[err |-> "AssertionError", results |-> <<>>]}
    ELSE {[err |-> "none",
           results |-> Results(order, ix, md, q, threshold)] :
             order \in FaissSearch(ix, q, Min(top_k, Ntotal(ix)))}

\* Python's str.lower() on the skill names of the model.
Lower(s) ==
    CASE s \in {"Python", "PYTHON"} -> "python"
      [] s \in {"Go", "GO"} -> "go"
      [] s = "SQL" -> "sql"
      [] s = "Java" -> "java"
      [] OTHER -> s

\* set(skill.lower() for skill in ...)
LowerSet(skills) == {Lower(x) : x \in skills}

\* The skills two lists share as they are spelled.
SharedAsSpelled(job_skills, resume_skills) == job_skills \cap resume_skills

\* Lines 181-186: both lists are lower-cased and intersected.
MatchingSkills(job_skills, resume_skills) ==
    LowerSet(job_skills) \cap LowerSet(resume_skills)

\* The overlap of a result's skills with the required skills.
Overlap(r, job) == Cardinality(MatchingSkills(job.skills, r.skills))

RECURSIVE RerankedBySkills(_, _)
RerankedBySkills(results, job) ==
    IF results = <<>> THEN <<>>
    ELSE LET i == CHOOSE i \in DOMAIN results :
                    /\ \A j \in DOMAIN results :
                         Overlap(results[i], job) >= Overlap(results[j], job)
                    /\ \A j \in 1..(i - 1) :
                         Overlap(results[j], job) < Overlap(results[i], job)
             rest == [j \in 1..(Len(results) - 1) |->
                        IF j < i THEN results[j] ELSE results[j + 1]]
         IN <<results[i]>> \o RerankedBySkills(rest, job)

MatchesRerankedBySkills(results, job) ==
    LET ranked == RerankedBySkills(results, job) IN
    [i \in DOMAIN ranked |->
       [resume_id |-> ranked[i].resume_id,
        similarity_score |-> ranked[i].similarity_score,
        index |-> ranked[i].index,
        matching_skills |-> MatchingSkills(job.skills, ranked[i].skills)]]

\* match_job_to_resumes lines 164-198: one MatchResult per search result,
\* in the order of the search results; the matching skills are reported.
Matches(results, job) ==
    [i \in DOMAIN results |->
       [resume_id |-> results[i].resume_id,
        similarity_score |-> results[i].similarity_score,
        index |-> results[i].index,
        matching_skills |-> MatchingSkills(job.skills, results[i].skills)]]

\* The state of the service as it stood when the call in progress began.
Boundary ==
    IF call.op \in {"add", "batch", "rebuild"}
    THEN [index |-> call.pre.index, metadata |-> call.pre.metadata]
    ELSE [index |-> index, metadata |-> metadata]

\* The search results up to the first one whose processing raised.
RECURSIVE KeptUntilFailure(_, _)
KeptUntilFailure(results, failed) ==
    IF results = <<>> \/ 1 \in failed THEN <<>>
    ELSE <<Head(results)>>
            \o KeptUntilFailure(Tail(results), {k - 1 : k \in failed})

\* Lines 165-202: the body of the loop is in a try block whose except
\* block logs and continues, so a result whose processing raised (failed
\* holds its position) adds no match and the loop goes on.
RECURSIVE Kept(_, _)
Kept(results, failed) ==
    IF results = <<>> THEN <<>>
    ELSE (IF 1 \in failed THEN <<>> ELSE <<Head(results)>>)
            \o Kept(Tail(results), {k - 1 : k \in failed})

\* The positions of the search results whose processing may raise: any
\* of them when records can be at fault, none otherwise.
Failures(results, may_fail) ==
    IF may_fail THEN SUBSET DOMAIN results ELSE {{}}

\* match_job_to_resumes: generate_embedding of the job text, then
\* faiss_service.search, which reads index.ntotal, the index and the
\* metadata, then the matches of the response (or HTTP 500).
Search(job, top_k, threshold, may_fail) ==
    /\ SearchMayRun
    /\ LET q == Normalize(Embed(job.text, settingsDim)) IN
       \E out \in SearchOutcomes(index, metadata, q, top_k, threshold) :
       \E failed \in Failures(out.results, may_fail) :
          last' = [op |-> "search",
                   seen |-> [index |-> index, metadata |-> metadata],
                   boundary |-> Boundary,
                   conc |-> \E p \in Reqs : reqs[p] # "idle",
                   job |-> job, query |-> q, top_k |-> top_k,
                   threshold |-> threshold, err |-> out.err,
                   results |-> out.results,
                   failed |-> failed,
                   matches |-> Matches(Kept(out.results, failed), job),
                   matches_found |-> Len(Kept(out.results, failed))]
    /\ pc' = "respond"
    /\ UNCHANGED <<call, index, metadata, dimension, settingsDim, indexFile,
                   metaFile, resumes, reqs, ups, embedder, assigned, acked>>

\* ------------------------------------------------------ lookup and delete
\* The resume ids a caller asks for: "r0" is never indexed.
ResumeIds == {"r0", "r1", "r2"}

\* Python's int() of a metadata key.
IntOf(s) == CHOOSE n \in -1..(MaxVectors + 1) : Str(n) = s

\* index.reconstruct(idx) of a flat index raises unless 0 <= idx < ntotal.
Reconstructs(ix, idx) == idx \in Slots(ix)

NotFound == [err |-> "none", found |-> FALSE, slot |-> -1, vector |-> <<>>,
             record |-> MetaEntry("")]

\* A lookup that lets the exception of index.reconstruct through.
GetVectorUncaught(ix, md, resume_id) ==
    LET keys == {k \in DOMAIN md : md[k].resume_id = resume_id} IN
    IF keys = {} THEN {NotFound}
    ELSE {IF Reconstructs(ix, IntOf(k))
          THEN [err |-> "none", found |-> TRUE, slot |-> IntOf(k),
                vector |-> ix.vecs[IntOf(k) + 1], record |-> md[k]]
          ELSE [NotFound EXCEPT !.err = "RuntimeError"] : k \in keys}

\* get_vector_by_resume_id: the first record of the metadata dict with
\* that resume_id decides; which record the dict holds first is left open
\* here.  Its vector is reconstructed from its slot; when that raises, the
\* except block returns None.
GetVectorByResumeId(ix, md, resume_id) ==
    LET keys == {k \in DOMAIN md : md[k].resume_id = resume_id} IN
    IF keys = {} THEN {NotFound}
    ELSE {IF Reconstructs(ix, IntOf(k))
          THEN [err |-> "none", found |-> TRUE, slot |-> IntOf(k),
                vector |-> ix.vecs[IntOf(k) + 1], record |-> md[k]]
          ELSE NotFound : k \in keys}

\* A synchronous call of get_vector_by_resume_id from the event loop.
Lookup(resume_id) ==
    /\ ThreadInLoop
    /\ \E out \in GetVectorByResumeId(index, metadata, resume_id) :
          last' = [op |-> "lookup", rid |-> resume_id, err |-> out.err,
                   found |-> out.found, slot |-> out.slot,
                   vector |-> out.vector, record |-> out.record]
    /\ pc' = "respond"
    /\ UNCHANGED <<call, index, metadata, dimension, settingsDim, indexFile,
                   metaFile, resumes, reqs, ups, embedder, assigned, acked>>

\* delete_vector logs a warning and returns False.
DeleteVector(resume_id) == FALSE

\* delete_resume: the handler returns a message in both branches, so the
\* response has status 200; nothing of the service is written.
Delete(resume_id) ==
    /\ ThreadInLoop
    /\ last' = [op |-> "delete", rid |-> resume_id,
                success |-> DeleteVector(resume_id),
                status |-> 200,
                message |-> IF DeleteVector(resume_id)
                            THEN "deleted successfully"
                            ELSE "not found or deletion not supported",
                pre |-> Snapshot]
    /\ pc' = "respond"
    /\ UNCHANGED <<call, index, metadata, dimension, settingsDim, indexFile,
                   metaFile, resumes, reqs, ups, embedder, assigned, acked>>

\* ------------------------------------------------------------ resume_parser
\* A text is a sequence of phrases.  The kinds of phrase and what the
\* patterns of _extract_experience_years capture in them:
\*   "exp"   "N years of experience"          pattern 1 captures N
\*   "plus"  "N+ years of Python experience"  no pattern matches
\*   "in"    "N years in finance"             pattern 2 captures N
\*   "over"  "over N years"                   pattern 3 captures N
\*   "more"  "more than N years"              pattern 4 captures N
\*   "none"  words without years              no pattern matches
\*   "blank" white space
\* Phrases are separated so that no match spans two of them.
MaxPhrases == 2

Years == {0, 3, 5}

Phrases ==
    {[kind |-> k, n |-> n] : k \in {"exp", "plus", "over"}, n \in Years}
        \cup {[kind |-> "none", n |-> 0], [kind |-> "blank", n |-> 0]}

Texts == SeqsUpTo(Phrases, MaxPhrases)

\* The patterns list of lines 220-225, each named by the phrase it matches.
Patterns == <<"exp", "in", "over", "more">>

\* re.findall(pattern, text, re.IGNORECASE): the captures as a set.
FindAll(pattern, text) ==
    {text[i].n : i \in {j \in DOMAIN text : text[j].kind = pattern}}

SetMax(S) == CHOOSE x \in S : \A y \in S : y <= x

\* Python's None for experience_years; \d+ captures no negative number.
None == -1

\* An extraction that reports the maximum over the captures of all the
\* patterns.
ExperienceYearsOverAll(text) ==
    LET all == UNION {FindAll(Patterns[i], text) : i \in DOMAIN Patterns} IN
    IF all = {} THEN None ELSE SetMax(all)

\* _extract_experience_years, lines 227-235: the first pattern of the list
\* that matches returns the maximum of its own captures.
RECURSIVE ExperienceYearsFrom(_, _)
ExperienceYearsFrom(i, text) ==
    IF i > Len(Patterns) THEN None
    ELSE IF FindAll(Patterns[i], text) # {}
         THEN SetMax(FindAll(Patterns[i], text))
         ELSE ExperienceYearsFrom(i + 1, text)

ExtractExperienceYears(text) == ExperienceYearsFrom(1, text)

\* helpers.extract_years_of_experience: six patterns ("exp", "over",
\* "more" and "N+ years" among them), the maximum over all captures from 0
\* on, and None when that maximum is 0.
HelperPatterns == <<"exp", "yrs", "field", "over", "more", "plus">>

ExtractYearsOfExperience(text) ==
    LET all == UNION {FindAll(HelperPatterns[i], text) :
                         i \in DOMAIN HelperPatterns}
        max_years == SetMax(all \cup {0})
    IN IF max_years > 0 THEN max_years ELSE None

\* str.strip(): white space at both ends is removed.
RECURSIVE LStrip(_)
LStrip(text) ==
    IF text # <<>> /\ Head(text).kind = "blank" THEN LStrip(Tail(text))
    ELSE text

RECURSIVE RStrip(_)
RStrip(text) ==
    IF text # <<>> /\ text[Len(text)].kind = "blank"
    THEN RStrip(SubSeq(text, 1, Len(text) - 1))
    ELSE text

Strip(text) == RStrip(LStrip(text))

\* What is uploaded: the bytes of a document (which of the documents it
\* is, and the phrases of its text), or two bytes that are neither UTF-8
\* nor a PDF.
Garbage == [doc |-> "garbage", text |-> <<>>]

\* The bytes of a file that was created or truncated and not yet written.
NoBytes == [doc |-> "none", text |-> <<>>]

Uploads ==
    {[doc |-> doc, text |-> text] : doc \in Docs, text \in Texts}
        \cup {Garbage}

\* Path(filename).suffix.lower()
Suffix(filename) ==
    CASE filename = "cv.txt" -> ".txt"
      [] filename = "cv.pdf" -> ".pdf"
      [] filename = "cv.exe" -> ".exe"

\* settings.ALLOWED_EXTENSIONS of the model's filenames.
AllowedExtensions == {".pdf", ".txt"}

\* _extract_text of the file at the path: the stripped text, or the error
\* of the decoder.  A missing file and a PDF that fitz cannot open raise
\* inside the decoder's try block; open(..., errors='ignore') of a .txt
\* file drops what is not UTF-8.
ExtractText(file, filename) ==
    IF file = Absent THEN [err |-> "Could not extract text", text |-> <<>>]
    ELSE IF Suffix(filename) = ".pdf" /\ file.data.doc \notin Docs
    THEN [err |-> "Could not extract text", text |-> <<>>]
    ELSE [err |-> "none", text |-> Strip(file.data.text)]

\* A record that was not parsed.
NoRecord == [id |-> "", doc |-> "none", skills |-> {},
             experience_years |-> None, raw_content |-> <<>>]

\* An ingest that lets a text without content through.
ParseResumeAnyText(file, filename) ==
    LET raw == ExtractText(file, filename) IN
    IF raw.err # "none"
    THEN [err |-> raw.err, record |-> NoRecord]
    ELSE [err |-> "none",
          record |-> [id |-> RidOf(file.data.doc), doc |-> file.data.doc,
                      skills |-> SkillsOf(RidOf(file.data.doc)),
                      experience_years |->
                          ExtractExperienceYears(raw.text),
                      raw_content |-> raw.text]]

\* parse_resume, lines 34-74: the text of the file, ValueError when it is
\* empty after strip, then the fields of the record.  Every exception
\* leaves as RuntimeError("Could not parse resume: <message>").
ParseResume(file, filename) ==
    LET raw == ExtractText(file, filename) IN
    IF raw.err # "none"
    THEN [err |-> raw.err, record |-> NoRecord]
    ELSE IF Strip(raw.text) = <<>>
    THEN [err |-> "No text content found", record |-> NoRecord]
    ELSE [err |-> "none",
          record |-> [id |-> RidOf(file.data.doc), doc |-> file.data.doc,
                      skills |-> SkillsOf(RidOf(file.data.doc)),
                      experience_years |->
                          ExtractExperienceYears(raw.text),
                      raw_content |-> raw.text]]

\* ------------------------------------- upload_resume, await by await
\* The uploads of two requests that meet: one length, so that a write over
\* another's bytes replaces them.
RaceUploads == {[doc |-> "A", text |-> <<[kind |-> "exp", n |-> 3]>>],
                [doc |-> "B", text |-> <<[kind |-> "over", n |-> 5]>>]}

\* The inode a new file gets: one that no file and no open handle has.
FreeIno ==
    CHOOSE n \in 1..(Cardinality(Filenames) + Cardinality(Reqs) + 1) :
        /\ \A fn \in Filenames : resumes[fn] # Absent => resumes[fn].ino # n
        /\ \A q \in Reqs : ups[q] # Idle => ups[q].ino # n

\* open(path, 'wb'): the file is created, or truncated in place.
OpenForWriting(file) ==
    IF file = Absent
    THEN [kind |-> "file", ino |-> FreeIno, data |-> NoBytes]
    ELSE [file EXCEPT !.data = NoBytes]

\* The bytes of a handle reach its file; they reach the path only while
\* the path still names that file.
WriteTo(files, filename, ino, bytes) ==
    IF files[filename] # Absent /\ files[filename].ino = ino
    THEN [files EXCEPT ![filename].data = bytes]
    ELSE files

\* os.remove(file_path), with its exception swallowed.
Remove(files, filename) == [files EXCEPT ![filename] = Absent]

\* The requests in flight on a filename, other than p.
Others(p, filename) ==
    {q \in Reqs \ {p} : ups[q] # Idle /\ ups[q].filename = filename}

\* What upload_resume answers.
Response(p, filename, bytes, status, detail, record, slot, raced) ==
    [op |-> "ingest", req |-> p, filename |-> filename, bytes |-> bytes,
     status |-> status, detail |-> detail, record |-> record,
     slot |-> slot, raced |-> raced]

\* Lines 55-78: the extension is validated (HTTP 400), then
\* aiofiles.open(file_path, 'wb') creates or truncates
\* RESUMES_DIR/filename and the handler is suspended.
IngestBegin(p, filename, bytes) ==
    /\ ThreadInLoop
    /\ ups[p] = Idle
    /\ Ntotal(index) + Cardinality({q \in Reqs : ups[q] # Idle})
          < MaxVectors
    /\ IF Suffix(filename) \notin AllowedExtensions
       THEN /\ last' = Response(p, filename, bytes, 400,
                                "Unsupported file type", NoRecord, -1,
                                FALSE)
            /\ pc' = "respond"
            /\ UNCHANGED <<resumes, ups>>
       ELSE /\ resumes' = [resumes EXCEPT ![filename] = OpenForWriting(@)]
            /\ ups' = [q \in Reqs |->
                         IF q = p
                         THEN [at |-> "opened", filename |-> filename,
                               bytes |-> bytes,
                               ino |-> OpenForWriting(resumes[filename]).ino,
                               raced |-> Others(p, filename) # {}]
                         ELSE IF q \in Others(p, filename)
                         THEN [ups[q] EXCEPT !.raced = TRUE]
                         ELSE ups[q]]
            /\ last' = NoResult
            /\ UNCHANGED pc
    /\ UNCHANGED <<call, index, metadata, dimension, settingsDim,
                   indexFile, metaFile, reqs, embedder, assigned, acked>>

\* Lines 79-80: content = await file.read(); await f.write(content).  The
\* bytes are in the buffer of the handle, or already in the file.
IngestWrite(p) ==
    /\ ThreadInLoop
    /\ ups[p] # Idle
    /\ ups[p].at = "opened"
    /\ \E flushed \in BOOLEAN :
         resumes' = IF flushed
                    THEN WriteTo(resumes, ups[p].filename, ups[p].ino,
                                 ups[p].bytes)
                    ELSE resumes
    /\ ups' = [ups EXCEPT ![p].at = "written"]
    /\ last' = NoResult
    /\ UNCHANGED <<pc, call, index, metadata, dimension, settingsDim,
                   indexFile, metaFile, reqs, embedder, assigned, acked>>

\* The end of the async with block: the handle is flushed and closed.
IngestClose(p) ==
    /\ ThreadInLoop
    /\ ups[p] # Idle
    /\ ups[p].at = "written"
    /\ resumes' = WriteTo(resumes, ups[p].filename, ups[p].ino,
                          ups[p].bytes)
    /\ ups' = [ups EXCEPT ![p].at = "closed"]
    /\ last' = NoResult
    /\ UNCHANGED <<pc, call, index, metadata, dimension, settingsDim,
                   indexFile, metaFile, reqs, embedder, assigned, acked>>

\* Lines 82-127, without an await: parse_resume of the file at the path,
\* generate_embedding, add_vector (its steps and its save are those of
\* AddToIndex, StoreMeta and _save_index, taken here at once), os.remove,
\* and the answer; on any exception the file is removed and the answer is
\* HTTP 500 with the message.
IngestRun(p) ==
    /\ ThreadInLoop
    /\ ups[p] # Idle
    /\ ups[p].at = "closed"
    /\ LET filename == ups[p].filename
           parsed == ParseResume(resumes[filename], filename)
           rows == <<Normalize(Embed(parsed.record.doc, settingsDim))>>
           vector_id == VectorId(Ntotal(index) + 1)
       IN
       IF parsed.err # "none"
       THEN /\ last' = Response(p, filename, ups[p].bytes, 500, parsed.err,
                                NoRecord, -1, ups[p].raced)
            /\ UNCHANGED <<index, metadata, indexFile, metaFile, assigned,
                           acked>>
       ELSE IF ~AddAccepts(index, rows)
       THEN /\ last' = Response(p, filename, ups[p].bytes, 500,
                                "Could not add vector to index",
                                parsed.record, -1, ups[p].raced)
            /\ UNCHANGED <<index, metadata, indexFile, metaFile, assigned,
                           acked>>
       ELSE /\ index' = IndexAdd(index, rows)
            /\ metadata' = Put(metadata, Str(vector_id),
                               MetaEntry(parsed.record.id))
            /\ indexFile' = IndexBlob(index')
            /\ metaFile' = MetaDoc(metadata')
            /\ assigned' = assigned \cup
                             {[pos |-> Ntotal(index), slot |-> vector_id,
                               rid |-> parsed.record.id,
                               vec |-> rows[1]]}
            /\ acked' = [slot |-> Ntotal(index), rid |-> parsed.record.id,
                         vec |-> rows[1]]
            /\ last' = Response(p, filename, ups[p].bytes, 200,
                                "Resume uploaded and processed successfully",
                                parsed.record, vector_id, ups[p].raced)
    /\ resumes' = Remove(resumes, ups[p].filename)
    /\ ups' = [ups EXCEPT ![p] = Idle]
    /\ pc' = "respond"
    /\ UNCHANGED <<call, dimension, settingsDim, reqs, embedder>>

\* The handler of a read-only request returns: its response is sent and
\* the thread is back in the event loop.
Respond ==
    /\ pc = "respond"
    /\ pc' = "loop"
    /\ last' = NoResult
    /\ UNCHANGED <<call, index, metadata, dimension, settingsDim, indexFile,
                   metaFile, resumes, reqs, ups, embedder, assigned, acked>>

Next ==
    \/ Start
    \/ Crash
    \/ SaveOpenIndex
    \/ SaveWriteIndex
    \/ SaveOpenMeta
    \/ SaveWriteMeta
    \/ SaveFails
    \/ \E p \in Reqs : UploadBegin(p)
    \/ \E p \in Reqs : UploadRun(p)
    \/ AddToIndex
    \/ StoreMeta
    \/ BatchCall
    \/ BatchAdd
    \/ BatchUpdateMeta
    \/ RebuildCall
    \/ Search(DefaultJob, DefaultTopK, DefaultThreshold, FALSE)
    \/ Respond

Spec == Init /\ [][Next]_vars

\* The service under one upload at a time and match requests of every
\* top_k and threshold, lookups and delete requests.
NextQuery ==
    \/ Start
    \/ Crash
    \/ SaveOpenIndex
    \/ SaveWriteIndex
    \/ SaveOpenMeta
    \/ SaveWriteMeta
    \/ SaveFails
    \/ UploadBegin(1)
    \/ UploadRun(1)
    \/ AddToIndex
    \/ StoreMeta
    \/ RebuildCall
    \/ \E job \in Jobs, top_k \in TopKs, threshold \in Thresholds :
          Search(job, top_k, threshold, TRUE)
    \/ \E resume_id \in ResumeIds : Lookup(resume_id)
    \/ \E resume_id \in ResumeIds : Delete(resume_id)
    \/ Respond

SpecQuery == Init /\ [][NextQuery]_vars

\* The service from the initialisation of the embedding model on, under
\* one upload at a time of every filename and every document.
NextIngest ==
    \/ \E loads \in BOOLEAN : TryModel(loads)
    \/ StartAfterModel
    \/ SaveOpenIndex
    \/ SaveWriteIndex
    \/ SaveOpenMeta
    \/ SaveWriteMeta
    \/ \E filename \in Filenames, bytes \in Uploads :
          IngestBegin(1, filename, bytes)
    \/ IngestWrite(1)
    \/ IngestClose(1)
    \/ IngestRun(1)
    \/ Respond

SpecIngest == Init /\ [][NextIngest]_vars

\* The same service under two uploads that overlap at their awaits.
NextRace ==
    \/ \E loads \in BOOLEAN : TryModel(loads)
    \/ StartAfterModel
    \/ SaveOpenIndex
    \/ SaveWriteIndex
    \/ SaveOpenMeta
    \/ SaveWriteMeta
    \/ \E p \in Reqs, filename \in Filenames, bytes \in RaceUploads :
          IngestBegin(p, filename, bytes)
    \/ \E p \in Reqs : IngestWrite(p)
    \/ \E p \in Reqs : IngestClose(p)
    \/ \E p \in Reqs : IngestRun(p)
    \/ Respond

SpecRace == Init /\ [][NextRace]_vars

\* ================================================================ claims
\* The persisted pair before an append, and the pair a complete append of
\* c.vec with c.rid leaves.
PrePair(c) == <<c.pre.indexFile, c.pre.metaFile>>

PostPair(c) ==
    <<IndexBlob(IndexAdd(c.pre.index, <<Normalize(c.vec)>>)),
      MetaDoc(Put(c.pre.metadata, Str(Ntotal(c.pre.index)),
                  MetaEntry(c.rid)))>>

\* C1: a crash at any point of an append leaves the persisted pair equal to
\* the complete pre-append pair or the complete post-append pair.
C1_CrashLeavesPreOrPost ==
    (last.op = "crash" /\ last.call.op = "add") =>
        <<indexFile, metaFile>> \in {PrePair(last.call), PostPair(last.call)}

\* C2: an append whose add_vector returned is never lost: whenever the
\* service has started, after whatever crashes, the index it serves holds
\* the vector of that append and its record under its slot (rebuild_index
\* aside, which discards every append).
C2_ReturnedAppendSurvivesRestart ==
    (last.op = "init" /\ acked # NoAck) =>
        /\ acked.slot < Ntotal(index)
        /\ index.vecs[acked.slot + 1] = Normalize(acked.vec)
        /\ Str(acked.slot) \in DOMAIN metadata
        /\ metadata[Str(acked.slot)] = MetaEntry(acked.rid)

\* C3: when exactly one of the two files exists at startup, loading is
\* rejected: the service does not come up serving an index.
C3_OneArtifactIsRejected ==
    (last.op = "init" /\ last.hadIndex # last.hadMeta) => pc # "loop"

\* C4: an index file of another dimension than the configured one is not
\* loaded: a loaded index has the configured dimension.
C4_LoadedIndexHasConfiguredDimension ==
    (last.op = "init" /\ last.how = "loaded") => index.d = settingsDim

C6_EachAppendUnderItsOwnSlot ==
    pc = "loop" =>
        /\ \A e \in assigned :
             /\ e.slot = e.pos
             /\ e.pos < Ntotal(index)
             /\ index.vecs[e.pos + 1] = Normalize(e.vec)
             /\ Str(e.slot) \in DOMAIN metadata
             /\ metadata[Str(e.slot)] = MetaEntry(e.rid)
        /\ \A e, f \in assigned : e # f => e.slot # f.slot

C6_TwoOverlappingUploadsAppended ==
    /\ last.op = "add"
    /\ last.ok
    /\ last.lapped
    /\ Cardinality(assigned) >= 2

\* C7: between calls the metadata keys are exactly the slots
\* 0..(vector count - 1), one entry per stored vector.
C7_SlotsDense ==
    pc = "loop" =>
        DOMAIN metadata = {Str(i) : i \in 0..(Ntotal(index) - 1)}

\* C8: a slot given to one append is never given to a later append of the
\* same index instance; rebuild_index starts a new instance.
C8_NoSlotReuse ==
    [][/\ \A e \in assigned' \ assigned :
             \A f \in assigned : e.slot # f.slot
       /\ \A e, f \in assigned' \ assigned : e # f => e.slot # f.slot]_vars

C8_BatchAfterAppend ==
    /\ last.op = "batch"
    /\ last.ok
    /\ Ntotal(last.pre.index) > 0
    /\ Cardinality(assigned) >= 2

\* C9: add_vector with a vector whose length is not the index dimension
\* fails on the dimension check of index.add, and the vector count and the
\* metadata are what they were before the call.
C9_WrongLengthAppendFails ==
    (last.op = "add" /\ Len(last.vec) # last.pre.index.d) =>
        /\ ~last.ok
        /\ last.err = "AssertionError"
        /\ Ntotal(index) = Ntotal(last.pre.index)
        /\ metadata = last.pre.metadata

C9_WrongLengthAppendMade ==
    /\ last.op = "add"
    /\ Len(last.vec) # last.pre.index.d
    /\ Ntotal(last.pre.index) > 0

\* C10: add_vectors_batch with an item whose vector has not the index
\* dimension fails as a whole: the index, the metadata and both files are
\* what they were before the call.
C10_BatchWithBadItemChangesNothing ==
    (/\ last.op = "batch"
     /\ \E i \in 1..Len(last.items) :
           Len(last.items[i].vec) # last.pre.index.d) =>
        /\ ~last.ok
        /\ Snapshot = last.pre

C10_MixedBatchMade ==
    /\ last.op = "batch"
    /\ \E i \in 1..Len(last.items) : Len(last.items[i].vec) # last.pre.index.d
    /\ \E i \in 1..Len(last.items) : Len(last.items[i].vec) = last.pre.index.d

\* -------------------------------------------------- claims about search
\* A completed search, the slots it returned, and the entries (a vector
\* with its metadata entry) of the index it ran on.
Searched == last.op = "search" /\ last.err = "none"

Returned == {last.results[i].index : i \in DOMAIN last.results}

Entries(ix, md) == {x \in Slots(ix) : Str(x) \in DOMAIN md}

Qualifying ==
    {x \in Entries(last.seen.index, last.seen.metadata) :
        Similarity(last.seen.index, last.query, x) >= last.threshold}

\* C11: search returns at most top_k results, all of similarity >=
\* threshold, and they are the top_k best entries among those that meet the
\* threshold: an entry that meets it is left out only when top_k results
\* are returned and none of them is worse.
C11_SearchReturnsTopKQualifying ==
    Searched =>
        /\ Len(last.results) <= last.top_k \/ last.results = <<>>
        /\ \A i \in DOMAIN last.results :
              last.results[i].similarity_score >= last.threshold
        /\ Returned \subseteq Qualifying
        /\ \A x \in Qualifying \ Returned :
              /\ Len(last.results) = last.top_k
              /\ \A i \in DOMAIN last.results :
                    last.results[i].similarity_score >=
                        Similarity(last.seen.index, last.query, x)

C11_EntryHiddenBehindVectorWithoutMetadata ==
    /\ Searched
    /\ last.top_k = 1
    /\ last.results = <<>>
    /\ Qualifying # {}
    /\ \A x, y \in Slots(last.seen.index) :
          x # y => Similarity(last.seen.index, last.query, x) #
                       Similarity(last.seen.index, last.query, y)

\* C12: the results of a search are non-increasing in similarity.
C12_ResultsNonIncreasing ==
    Searched =>
        \A i, j \in DOMAIN last.results :
            i < j => last.results[i].similarity_score >=
                         last.results[j].similarity_score

C12_TwoResultsOfDifferentSimilarity ==
    /\ Searched
    /\ Len(last.results) = 2
    /\ last.results[1].similarity_score > last.results[2].similarity_score

\* C13: results of equal similarity come in ascending slot order.
C13_TiesInSlotOrder ==
    Searched =>
        \A i, j \in DOMAIN last.results :
            (/\ i < j
             /\ last.results[i].similarity_score =
                    last.results[j].similarity_score)
                => last.results[i].index < last.results[j].index

\* C14: a search on an index of zero vectors returns the empty list and
\* raises nothing, whatever top_k, the threshold and the query are.
C14_EmptyIndexGivesEmptyList ==
    (last.op = "search" /\ Ntotal(last.seen.index) = 0) =>
        /\ last.err = "none"
        /\ last.results = <<>>
        /\ last.matches = <<>>

C14_EmptyIndexOddRequest ==
    /\ last.op = "search"
    /\ Ntotal(last.seen.index) = 0
    /\ last.top_k < 0
    /\ Len(last.query) # last.seen.index.d

\* C15: on a non-empty index, when no stored vector clears the threshold,
\* search returns the empty sequence and no error, for every top_k.
C15_NoMatchIsNotAnError ==
    (/\ last.op = "search"
     /\ Ntotal(last.seen.index) > 0
     /\ Len(last.query) = last.seen.index.d
     /\ \A x \in Slots(last.seen.index) :
           Similarity(last.seen.index, last.query, x) < last.threshold) =>
        /\ last.err = "none"
        /\ last.results = <<>>

\* The position among the search results of the result that the i-th
\* match reports (a search returns a slot once).
PositionOf(i) ==
    CHOOSE k \in DOMAIN last.results :
        last.results[k].index = last.matches[i].index

\* C20: the matches of a response are the search results in the order of
\* the search, whatever the skill overlaps are.
C20_MatchesInSearchOrder ==
    Searched =>
        /\ \A i \in DOMAIN last.matches :
              /\ last.matches[i].resume_id =
                     last.results[PositionOf(i)].resume_id
              /\ last.matches[i].similarity_score =
                     last.results[PositionOf(i)].similarity_score
        /\ \A i, j \in DOMAIN last.matches :
              i < j => PositionOf(i) < PositionOf(j)

C20_SecondMatchHasMoreSkills ==
    /\ Searched
    /\ Len(last.matches) = 2
    /\ Cardinality(last.matches[1].matching_skills) <
           Cardinality(last.matches[2].matching_skills)

C17_RebuildEndsEmptyAndPersisted ==
    (last.op = "rebuild" /\ last.ok) =>
        /\ Ntotal(index) = 0
        /\ metadata = EmptyMeta
        /\ indexFile.kind = "index"
        /\ metaFile.kind = "json"
        /\ Ntotal(ReadIndex(indexFile)) = 0
        /\ JsonLoad(metaFile) = EmptyMeta

\* A rebuild has returned that began on an index of two vectors with
\* their records, all of it persisted.
C17_RebuildOfTwoEntries ==
    /\ last.op = "rebuild"
    /\ last.ok
    /\ Ntotal(last.pre.index) = 2
    /\ Cardinality(DOMAIN last.pre.metadata) = 2
    /\ last.pre.indexFile = IndexBlob(last.pre.index)
    /\ last.pre.metaFile = MetaDoc(last.pre.metadata)

\* C18: a delete request, for an indexed resume id or not, is answered
\* with an error status that tells the caller deletion is not supported,
\* never with a response that implies the resume was deleted, and leaves
\* the index, the metadata and the files as they were.
C18_DeleteSignalsNotSupported ==
    last.op = "delete" =>
        /\ last.status >= 400
        /\ last.message # "deleted successfully"
        /\ Snapshot = last.pre

\* A delete request for a resume that is indexed.
C18_DeleteOfIndexedResume ==
    /\ last.op = "delete"
    /\ \E x \in Entries(index, metadata) :
          metadata[Str(x)].resume_id = last.rid

\* The records of the metadata that carry the resume id asked for.
RecordsOf(rid) == {k \in DOMAIN metadata : metadata[k].resume_id = rid}

\* C19: a lookup by resume id never ends in an error; what it returns is
\* the stored vector and the record of an entry with that id; it returns
\* the absent result when no entry has that id; and it returns the entry
\* when the id belongs to exactly one record and that record has a vector.
C19_LookupReturnsEntryOrAbsent ==
    last.op = "lookup" =>
        /\ last.err = "none"
        /\ last.found =>
              /\ last.slot \in Entries(index, metadata)
              /\ last.record = metadata[Str(last.slot)]
              /\ last.record.resume_id = last.rid
              /\ last.vector = index.vecs[last.slot + 1]
        /\ (\A x \in Entries(index, metadata) :
                metadata[Str(x)].resume_id # last.rid) => ~last.found
        /\ (\E x \in Entries(index, metadata) :
                RecordsOf(last.rid) = {Str(x)}) => last.found

\* A lookup has found the entry of the second slot of an index of two.
C19_FoundSecondEntry ==
    /\ last.op = "lookup"
    /\ last.found
    /\ last.slot = 1
    /\ Cardinality(Entries(index, metadata)) = 2

\* The skill names in lower case that the requests and records can hold.
LowerNames == {"python", "go", "sql", "java"}

\* C21: for every match of a response, the reported matching skills are
\* exactly the skills, compared without regard to case, that the request
\* requires and the matched record stores: none outside both, none missing.
C21_OverlapIsCaseInsensitiveIntersection ==
    Searched =>
        \A i \in DOMAIN last.matches :
            LET rec == last.seen.metadata[Str(last.matches[i].index)] IN
            last.matches[i].matching_skills =
                {x \in LowerNames :
                    /\ \E j \in last.job.skills : Lower(j) = x
                    /\ \E r \in rec.skills : Lower(r) = x}

\* A match whose record shares a skill with the request in another
\* spelling, while the request and the record each hold a skill the other
\* has not.
C21_SharedSkillInOtherCase ==
    /\ Searched
    /\ \E i \in DOMAIN last.matches :
          LET rec == last.seen.metadata[Str(last.matches[i].index)] IN
          /\ last.matches[i].matching_skills = {"go"}
          /\ last.job.skills \cap rec.skills = {}
          /\ "SQL" \in rec.skills
          /\ "Java" \in last.job.skills

\* An upload was parsed, indexed and answered with HTTP 200.
Ingested == last.op = "ingest" /\ last.status = 200

\* C22: the experience years of a parsed record are the maximum over the
\* numeric captures of all the patterns in its text, and None when no
\* pattern matches.
C22_ExperienceYearsIsMaxOverAllPatterns ==
    Ingested =>
        last.record.experience_years =
            ExperienceYearsOverAll(last.record.raw_content)

\* A record was parsed from a text in which two patterns capture
\* different numbers.
C22_TwoPatternsCapture ==
    /\ Ingested
    /\ \E i, j \in DOMAIN Patterns :
          /\ i < j
          /\ FindAll(Patterns[i], last.record.raw_content) # {}
          /\ FindAll(Patterns[j], last.record.raw_content) # {}
          /\ FindAll(Patterns[i], last.record.raw_content) #
                 FindAll(Patterns[j], last.record.raw_content)

\* The text "5+ years of Python experience, AWS Certified Solutions
\* Architect, email john@x.com": an "N+ years" phrase that has words
\* between "years" and "experience", then words without years.
ScenarioText == <<[kind |-> "plus", n |-> 5], [kind |-> "none", n |-> 0]>>

\* C23: a record parsed from a text whose only phrases with years are
\* "N+ years of ... experience" phrases with one N has experience years N;
\* the scenario text gives 5.
C23_PlusYearsYieldsN ==
    Ingested =>
        \A n \in Years :
            (/\ \E i \in DOMAIN last.record.raw_content :
                   last.record.raw_content[i] = [kind |-> "plus", n |-> n]
             /\ \A i \in DOMAIN last.record.raw_content :
                   last.record.raw_content[i].kind \in {"plus", "none", "blank"}
                   /\ (last.record.raw_content[i].kind = "plus"
                         => last.record.raw_content[i].n = n))
                => last.record.experience_years = n

\* The scenario text was parsed into a record.
C23_ScenarioParsed ==
    /\ Ingested
    /\ last.record.raw_content = ScenarioText

\* The conditions of an uploaded document, judged on its own name and
\* bytes: its format is not supported; its decoder fails; it decodes to a
\* text that is empty or white space only.
Unsupported(r) == Suffix(r.filename) \notin AllowedExtensions

DecoderFails(r) ==
    /\ ~Unsupported(r)
    /\ Suffix(r.filename) = ".pdf"
    /\ r.bytes = Garbage

DecodesToNothing(r) ==
    /\ ~Unsupported(r)
    /\ ~DecoderFails(r)
    /\ Strip(r.bytes.text) = <<>>

\* C24: an upload that is not overlapped by another fails with the "No
\* text content found" message exactly when its decoded text is empty or
\* white space only; a decoder failure and an unsupported format are
\* answered with other messages; and a document with a non-empty text is
\* parsed and answered with HTTP 200, its experience years None when its
\* text has no phrase a pattern matches.
C24_NoContentIsItsOwnCondition ==
    (last.op = "ingest" /\ ~last.raced) =>
        /\ DecodesToNothing(last) <=>
              (last.status = 500 /\ last.detail = "No text content found")
        /\ DecoderFails(last) <=>
              (last.status = 500 /\ last.detail = "Could not extract text")
        /\ Unsupported(last) <=>
              (last.status = 400 /\ last.detail = "Unsupported file type")
        /\ (~Unsupported(last) /\ last.bytes.doc \in Docs
               /\ Strip(last.bytes.text) # <<>>) =>
              /\ last.status = 200
              /\ last.record.raw_content = Strip(last.bytes.text)
              /\ (\A i \in DOMAIN last.bytes.text :
                     last.bytes.text[i].kind \in {"plus", "none", "blank"})
                    => last.record.experience_years = None

\* A .txt upload of white space only was answered.
C24_WhiteSpaceOnlyUploaded ==
    /\ last.op = "ingest"
    /\ Suffix(last.filename) = ".txt"
    /\ last.bytes.doc \in Docs
    /\ Len(last.bytes.text) = 2
    /\ Strip(last.bytes.text) = <<>>

\* The candidates that were attempted, in the order of the attempts.
Attempted ==
    IF embedder.model = "none" THEN embedder.failed
    ELSE Append(embedder.failed, embedder.model)

\* C25: the candidates are attempted in list order; the initialisation
\* stops at the first candidate that loads; it has raised its error
\* exactly when every candidate of the list was attempted and failed; and
\* when no candidate is left it has a model or has raised.
C25_ModelInitTriesAllInOrder ==
    /\ Attempted = SubSeq(ModelOptions, 1, embedder.tried)
    /\ embedder.model # "none" =>
          /\ embedder.model = ModelOptions[embedder.tried]
          /\ ~embedder.raised
    /\ embedder.raised <=> embedder.failed = ModelOptions
    /\ embedder.tried = Len(ModelOptions) =>
          (embedder.model # "none" \/ embedder.raised)

\* The first two candidates failed and the third is loaded; the service
\* runs with it.
C25_ThirdCandidateLoaded ==
    /\ embedder.model = ModelOptions[3]
    /\ Len(embedder.failed) = 2
    /\ pc = "loop"

\* add_vector on each item of a list in list order, from an index and its
\* metadata: the index and metadata after the last call.
RECURSIVE AddEach(_, _, _)
AddEach(ix, md, items) ==
    IF items = <<>> THEN [index |-> ix, metadata |-> md]
    ELSE LET ix1 == IndexAdd(ix, <<Normalize(Head(items).vec)>>)
             md1 == Put(md, Str(VectorId(Ntotal(ix1))),
                        MetaEntry(Head(items).rid))
         IN AddEach(ix1, md1, Tail(items))

C27_RaisedAppendLeavesMemory ==
    (last.op = "add" /\ ~last.ok) =>
        /\ index = last.pre.index
        /\ metadata = last.pre.metadata

\* add_vector has raised because its _save_index failed.
C27_AppendRaisedInSave ==
    /\ last.op = "add"
    /\ last.err = "OSError"

\* C28: while the index service initialises with at least one of its two
\* files on disk and could not load them, no step changes the files.
C28_InitKeepsFiles ==
    [][(call.op = "init" /\ (call.hadIndex \/ call.hadMeta))
          => UNCHANGED <<indexFile, metaFile>>]_vars

\* The service has initialised with a new empty index, saved over the
\* index file that alone was on disk.
C28_InitOverReadableIndexFile ==
    /\ last.op = "init"
    /\ last.how = "created"
    /\ last.hadIndex
    /\ ~last.hadMeta

\* C29: an upload that overlapped another upload of the same filename and
\* reports success has indexed a record parsed from its own bytes, and an
\* upload whose own document can be parsed does not fail.
C29_SameFilenameUploadsKeepApart ==
    (last.op = "ingest" /\ last.raced) =>
        /\ last.status = 200 =>
              /\ last.record.doc = last.bytes.doc
              /\ last.record.raw_content = Strip(last.bytes.text)
              /\ metadata[Str(last.slot)].resume_id = RidOf(last.bytes.doc)
        /\ (~Unsupported(last) /\ ~DecoderFails(last)
               /\ ~DecodesToNothing(last)) => last.status = 200

\* An upload is answered while another upload of the same filename, with
\* other bytes, is still in flight.
C29_AnsweredWhileOtherInFlight ==
    /\ last.op = "ingest"
    /\ last.raced
    /\ \E q \in Reqs :
          /\ ups[q] # Idle
          /\ ups[q].filename = last.filename
          /\ ups[q].bytes # last.bytes

\* The match operation drops the results whose processing raised and only
\* those: the request succeeds, every other result has its match, in the
\* order of the search, and matches_found is the number of matches.
DropsOnlyFailedResults ==
    Searched =>
        /\ {PositionOf(i) : i \in DOMAIN last.matches} =
               DOMAIN last.results \ last.failed
        /\ \A i, j \in DOMAIN last.matches :
              i < j => PositionOf(i) < PositionOf(j)
        /\ Len(last.matches) = Len(last.results) - Cardinality(last.failed)
        /\ last.matches_found = Len(last.matches)
        /\ last.matches_found <= Len(last.results)

\* C30: a failure while one search result is processed drops only that
\* result, and matches_found, the length of the matches, is at most the
\* number of search results and at most top_k.
C30_FailedResultDroppedAndBounded ==
    /\ DropsOnlyFailedResults
    /\ Searched => last.matches_found <= last.top_k

\* The first of two search results failed and the second is the only
\* match.
C30_FirstOfTwoResultsFailed ==
    /\ Searched
    /\ Len(last.results) = 2
    /\ last.failed = {1}
    /\ Len(last.matches) = 1
    /\ last.matches[1].index = last.results[2].index

====
